---- MODULE Spec2Model ----
(***************************************************************************)
(* Storage and aliasing model of aligator/gar/lqr-problem.hpp:             *)
(* LqrKnotTpl (one stage of a constrained LQ problem), its view            *)
(* aggregates, the textual dump, and LqrProblemTpl (initial-condition      *)
(* constraint + sequence of knots).                                        *)
(*                                                                         *)
(* Memory is a heap of buffers named by ever-increasing identifiers (a     *)
(* buffer generation); objects hold buffer identifiers, so that a deep     *)
(* copy, a steal and an alias are different things.                        *)
(***************************************************************************)
EXTENDS Integers, Sequences, FiniteSets, TLC

VARIABLES heap,     \* live buffers: buffer id -> contents
          nextBuf,  \* next fresh buffer id
          knots,    \* standalone knots: slot -> knot object
          views,    \* views handed out to the solver collaborator
          probs,    \* problems: slot -> problem object
          last      \* the last operation, its arguments and what it returned

vars == <<heap, nextBuf, knots, views, probs, last>>

(* ------------------------------ bounds --------------------------------- *)
MaxKnotBuf == 3    \* allocations made by a run of the knot scenario
MaxNth == 2        \* largest parameter dimension requested of a knot
MaxViews == 1      \* views outstanding at once
MaxStages == 2     \* longest knot sequence handed to a problem constructor

Allocs == {"default", "pool"}
DefaultAlloc == "default"
NxVals == {1, 2}
NuVals == {1}
NcVals == {1}
Nx2Vals == {2}
NthVals == 0..MaxNth
Subject == "subject"
Other == "other"
KnotIds == {Subject, Other}
P == "p"
O == "o"
ProbIds == {P, O}
CtorNthVals == {0, 1}
PNthVals == {0, 1}
Nc0Vals == {1}
PNxVals == {1}
\* stage blocks the problem scenario writes to
PWrBlocks == {"Q"}
NoBuf == 0
WriteVals == {1}

Blocks == {"Q", "S", "R", "q", "r", "A", "B", "E", "f", "C", "D", "d",
           "Gth", "Gx", "Gu", "Gv", "gamma"}
ParamBlocks == {"Gth", "Gx", "Gu", "Gv", "gamma"}
\* blocks the scenarios write to (one cost block, one parameter block)
WrBlocks == {"Q", "Gth"}

(* ------------------------------ memory --------------------------------- *)
\* Mem: every allocation gets a fresh identifier (a buffer generation).
\* Pool: an allocation gets the lowest identifier not in use, as an arena
\* that hands freed storage out again does.
Mem(hp, nb) == [hp |-> hp, nb |-> nb, fresh |-> TRUE]
Pool(hp) == [hp |-> hp, nb |-> 1, fresh |-> FALSE]
NewId(m) ==
  IF m.fresh THEN m.nb
  ELSE CHOOSE i \in 1..(Cardinality(DOMAIN m.hp) + 1) :
         /\ i \notin DOMAIN m.hp
         /\ \A j \in 1..(i - 1) : j \in DOMAIN m.hp
Alloc(m, contents) ==
  [m EXCEPT !.hp = (NewId(m) :> contents) @@ m.hp,
            !.nb = IF m.fresh THEN m.nb + 1 ELSE m.nb]
Free(m, b) == [m EXCEPT !.hp = [x \in (DOMAIN m.hp) \ {b} |-> m.hp[x]]]

Idx(r, c) == (1..r) \X (1..c)
Zero(r, c) == [ij \in Idx(r, c) |-> 0]
\* resize to r x c; entries outside the old shape are zero
Resized(old, r, c, keep) ==
  [ij \in Idx(r, c) |-> IF keep /\ ij \in DOMAIN old THEN old[ij] ELSE 0]

(* ------------------------------- Knot ---------------------------------- *)
KnotDims(k) == [nx |-> k.nx, nu |-> k.nu, nc |-> k.nc, nx2 |-> k.nx2, nth |-> k.nth]

\* shape of block b under dimensions d
Shape(b, d) ==
  CASE b = "Q" -> <<d.nx, d.nx>>
    [] b = "S" -> <<d.nx, d.nu>>
    [] b = "R" -> <<d.nu, d.nu>>
    [] b = "q" -> <<d.nx, 1>>
    [] b = "r" -> <<d.nu, 1>>
    [] b = "A" -> <<d.nx2, d.nx>>
    [] b = "B" -> <<d.nx2, d.nu>>
    [] b = "E" -> <<d.nx2, d.nx2>>
    [] b = "f" -> <<d.nx2, 1>>
    [] b = "C" -> <<d.nc, d.nx>>
    [] b = "D" -> <<d.nc, d.nu>>
    [] b = "d" -> <<d.nc, 1>>
    [] b = "Gth" -> <<d.nth, d.nth>>
    [] b = "Gx" -> <<d.nth, d.nx>>
    [] b = "Gu" -> <<d.nth, d.nu>>
    [] b = "Gv" -> <<d.nc, d.nth>>
    [] b = "gamma" -> <<d.nth, 1>>

BlockHeaders(d, a) ==
  [b \in Blocks |-> [rows |-> Shape(b, d)[1], cols |-> Shape(b, d)[2], alloc |-> a]]

ZeroBlocks(d) == [b \in Blocks |-> Zero(Shape(b, d)[1], Shape(b, d)[2])]

\* LqrKnotTpl(nx, nu, nc, nx2, nth, alloc): result [m, k]
Knot_ctor(m, nx, nu, nc, nx2, nth, a) ==
  LET d == [nx |-> nx, nu |-> nu, nc |-> nc, nx2 |-> nx2, nth |-> nth]
  IN [m |-> Alloc(m, ZeroBlocks(d)),
      k |-> [st |-> "live", nx |-> nx, nu |-> nu, nc |-> nc, nx2 |-> nx2,
             nth |-> nth, alloc |-> a, buf |-> NewId(m), blk |-> BlockHeaders(d, a)]]

\* delegating constructor, nth = 0
Knot_ctor4(m, nx, nu, nc, nx2, a) == Knot_ctor(m, nx, nu, nc, nx2, 0, a)

\* delegating constructor, nx2 = nx and nth = 0
Knot_ctor3(m, nx, nu, nc, a) == Knot_ctor(m, nx, nu, nc, nx, 0, a)

\* LqrKnotTpl(const LqrKnotTpl &other, alloc): deep copy under alloc
Knot_copy_ctor(m, other, a) ==
  [m |-> Alloc(m, m.hp[other.buf]),
   k |-> [other EXCEPT !.alloc = a, !.buf = NewId(m),
                       !.blk = BlockHeaders(KnotDims(other), a)]]

\* the state a knot is left in after being moved from
MovedFrom(k) == [k EXCEPT !.st = "moved", !.buf = NoBuf]

\* LqrKnotTpl(LqrKnotTpl &&other): buffers and allocator are stolen
Knot_move_ctor(m, other) == [m |-> m, k |-> other, other |-> MovedFrom(other)]

\* a faulty assign: dimensions and values copied, block headers not reshaped
Knot_assign_stale_headers(m, self, other) ==
  LET m1 == Alloc(m, m.hp[other.buf])
      m2 == IF self.buf = NoBuf THEN m1 ELSE Free(m1, self.buf)
  IN [m |-> m2,
      k |-> [other EXCEPT !.st = "live", !.alloc = self.alloc, !.buf = NewId(m),
                          !.blk = self.blk],
      realloc |-> TRUE]

\* assign(other): dimensions and values copied, own allocator kept;
\* storage is resized (reallocated) when the dimensions differ
Knot_assign(m, self, other) ==
  IF self.st = "live" /\ KnotDims(self) = KnotDims(other)
  THEN [m |-> [m EXCEPT !.hp[self.buf] = m.hp[other.buf]],
        k |-> self, realloc |-> FALSE]
  ELSE LET m1 == Alloc(m, m.hp[other.buf])
           m2 == IF self.buf = NoBuf THEN m1 ELSE Free(m1, self.buf)
       IN [m |-> m2,
           k |-> [other EXCEPT !.st = "live", !.alloc = self.alloc, !.buf = NewId(m),
                               !.blk = BlockHeaders(KnotDims(other), self.alloc)],
           realloc |-> TRUE]

\* operator=(const LqrKnotTpl &): current allocator reused
Knot_copy_assign(m, self, other) == Knot_assign(m, self, other)

\* operator=(LqrKnotTpl &&): allocator and buffers of other are stolen
Knot_move_assign(m, self, other) ==
  [m |-> IF self.buf = NoBuf THEN m ELSE Free(m, self.buf),
   k |-> other, other |-> MovedFrom(other)]

\* a faulty addParameterization: the new buffer is left zero-initialised
Knot_addParameterization_zeroed(m, k, nth, keep) ==
  LET d == [KnotDims(k) EXCEPT !.nth = nth]
  IN [m |-> Free(Alloc(m, ZeroBlocks(d)), k.buf),
      k |-> [k EXCEPT !.nth = nth, !.buf = NewId(m), !.blk = BlockHeaders(d, k.alloc)]]

\* addParameterization(nth): the whole buffer is reallocated; cost, dynamics
\* and constraint data are carried over; parameter blocks are shaped for nth.
\* keep: whether the old parameter entries survive a change of nth (the
\* documentation fixes only the entries that are new, and the case nth = k.nth)
Knot_addParameterization(m, k, nth, keep) ==
  LET d == [KnotDims(k) EXCEPT !.nth = nth]
      old == m.hp[k.buf]
      new == [b \in Blocks |->
                IF b \in ParamBlocks
                THEN Resized(old[b], Shape(b, d)[1], Shape(b, d)[2],
                             keep \/ nth = k.nth)
                ELSE old[b]]
  IN [m |-> Free(Alloc(m, new), k.buf),
      k |-> [k EXCEPT !.nth = nth, !.buf = NewId(m), !.blk = BlockHeaders(d, k.alloc)]]

\* LqrKnotTpl::isApprox: same dimensions and every block pair equal
Knot_isApprox(hp, k, other) ==
  /\ KnotDims(k) = KnotDims(other)
  /\ \A b \in Blocks : hp[k.buf][b] = hp[other.buf][b]

(* ------------------------------- views --------------------------------- *)
\* ManagedMatrix::to_map / to_const_map: a non-owning alias of the block
to_map(k, b) == [buf |-> k.buf, blk |-> b, rows |-> k.blk[b].rows, cols |-> k.blk[b].cols]

\* a faulty to_view: the S slot of the aggregate is given the map of R
to_view_misplaced(k) ==
  [nx |-> k.nx, nu |-> k.nu, nc |-> k.nc, nx2 |-> k.nx2, nth |-> k.nth,
   Q |-> to_map(k, "Q"), S |-> to_map(k, "R"), R |-> to_map(k, "R"),
   q |-> to_map(k, "q"), r |-> to_map(k, "r"),
   A |-> to_map(k, "A"), B |-> to_map(k, "B"), E |-> to_map(k, "E"),
   f |-> to_map(k, "f"),
   C |-> to_map(k, "C"), D |-> to_map(k, "D"), d |-> to_map(k, "d"),
   Gth |-> to_map(k, "Gth"), Gx |-> to_map(k, "Gx"), Gu |-> to_map(k, "Gu"),
   Gv |-> to_map(k, "Gv"), gamma |-> to_map(k, "gamma")]

to_view(k) ==
  [nx |-> k.nx, nu |-> k.nu, nc |-> k.nc, nx2 |-> k.nx2, nth |-> k.nth,
   Q |-> to_map(k, "Q"), S |-> to_map(k, "S"), R |-> to_map(k, "R"),
   q |-> to_map(k, "q"), r |-> to_map(k, "r"),
   A |-> to_map(k, "A"), B |-> to_map(k, "B"), E |-> to_map(k, "E"),
   f |-> to_map(k, "f"),
   C |-> to_map(k, "C"), D |-> to_map(k, "D"), d |-> to_map(k, "d"),
   Gth |-> to_map(k, "Gth"), Gx |-> to_map(k, "Gx"), Gu |-> to_map(k, "Gu"),
   Gv |-> to_map(k, "Gv"), gamma |-> to_map(k, "gamma")]

to_const_view(k) ==
  [nx |-> k.nx, nu |-> k.nu, nc |-> k.nc, nx2 |-> k.nx2, nth |-> k.nth,
   Q |-> to_map(k, "Q"), S |-> to_map(k, "S"), R |-> to_map(k, "R"),
   q |-> to_map(k, "q"), r |-> to_map(k, "r"),
   A |-> to_map(k, "A"), B |-> to_map(k, "B"), E |-> to_map(k, "E"),
   f |-> to_map(k, "f"),
   C |-> to_map(k, "C"), D |-> to_map(k, "D"), d |-> to_map(k, "d"),
   Gth |-> to_map(k, "Gth"), Gx |-> to_map(k, "Gx"), Gu |-> to_map(k, "Gu"),
   Gv |-> to_map(k, "Gv"), gamma |-> to_map(k, "gamma")]

\* what a map reads
ReadMap(hp, mp) == hp[mp.buf][mp.blk]

\* a write of entry (1,1) through a map
WriteMap(hp, mp, val) == [hp EXCEPT ![mp.buf][mp.blk][<<1, 1>>] = val]

(* --------------------------- ManagedMatrix ----------------------------- *)
\* A matrix object: its allocator (fixed for its lifetime), its shape and the
\* buffer holding its entries (none while it has no entries).
MM_data(hp, x) == IF x.buf = NoBuf THEN Zero(x.rows, x.cols) ELSE hp[x.buf]

\* ManagedMatrix(alloc): an empty matrix
MM_ctor(a) == [alloc |-> a, buf |-> NoBuf, rows |-> 0, cols |-> 0]

\* ManagedMatrix(rows, cols, alloc), zero-initialised: result [m, x]
MM_ctor_shape(m, r, c, a) ==
  IF r * c = 0
  THEN [m |-> m, x |-> [alloc |-> a, buf |-> NoBuf, rows |-> r, cols |-> c]]
  ELSE [m |-> Alloc(m, Zero(r, c)),
        x |-> [alloc |-> a, buf |-> NewId(m), rows |-> r, cols |-> c]]

MM_free(m, x) == IF x.buf = NoBuf THEN m ELSE Free(m, x.buf)

\* copy assignment: resize to the source's shape, copy the values, keep the
\* allocator: result [m, x]
MM_copy_assign(m, self, other) ==
  IF other.rows * other.cols = 0
  THEN [m |-> MM_free(m, self),
        x |-> [self EXCEPT !.buf = NoBuf, !.rows = other.rows, !.cols = other.cols]]
  ELSE IF self.rows = other.rows /\ self.cols = other.cols
  THEN [m |-> [m EXCEPT !.hp[self.buf] = m.hp[other.buf]], x |-> self]
  ELSE [m |-> MM_free(Alloc(m, m.hp[other.buf]), self),
        x |-> [self EXCEPT !.buf = NewId(m), !.rows = other.rows, !.cols = other.cols]]

\* move assignment: the buffer is stolen when both use the same allocator, and
\* the values are copied under the own allocator otherwise: result [m, x, other]
MM_move_assign(m, self, other) ==
  IF self.alloc = other.alloc
  THEN [m |-> MM_free(m, self),
        x |-> other,
        other |-> MM_ctor(other.alloc)]
  ELSE LET r == MM_copy_assign(m, self, other)
       IN [m |-> r.m, x |-> r.x, other |-> other]

\* ManagedMatrix::isApprox: unequal shapes are a hard failure
MM_isApprox(hp, a, b) ==
  IF a.rows # b.rows \/ a.cols # b.cols THEN "abort"
  ELSE IF MM_data(hp, a) = MM_data(hp, b) THEN "true" ELSE "false"

(* ------------------------------ Problem -------------------------------- *)
Range(sq) == {sq[i] : i \in DOMAIN sq}

\* horizon(): (int)stages.size() - 1
horizon(pr) == Len(pr.stages) - 1

\* nc0(): (uint)g0.rows()
nc0(pr) == pr.g0.rows

\* conversion of an int to uint: a 32-bit value, kept as its two 16-bit halves
UintHalf == 65536
ToUint(i) == [hi |-> (i \div UintHalf) % UintHalf, lo |-> i % UintHalf]
UintLess(a, b) == a.hi < b.hi \/ (a.hi = b.hi /\ a.lo < b.lo)

get_allocator(pr) == pr.G0.alloc

check_allocators(pr) ==
  /\ get_allocator(pr) = pr.g0.alloc
  /\ get_allocator(pr) = pr.salloc

\* LqrProblemTpl(alloc): G0(alloc), g0(alloc), stages(alloc)
Problem_ctor(a) ==
  [st |-> "live", G0 |-> MM_ctor(a), g0 |-> MM_ctor(a), stages |-> <<>>, salloc |-> a]

\* copies of the knots ks under allocator a, in order: result [m, ks]
RECURSIVE CopyKnots(_, _, _)
CopyKnots(m, ks, a) ==
  IF ks = <<>> THEN [m |-> m, ks |-> <<>>]
  ELSE LET r == Knot_copy_ctor(m, Head(ks), a)
           rest == CopyKnots(r.m, Tail(ks), a)
       IN [m |-> rest.m, ks |-> <<r.k>> \o rest.ks]

\* columns of G0: the state dimension of the first stage
Nx0(ks) == IF ks = <<>> THEN 0 ELSE ks[1].nx

\* LqrProblemTpl(const KnotVector &knots, long nc0, alloc): the knots are
\* copied under alloc, G0 is nc0 x nx0 and g0 has nc0 rows: result [m, p]
Problem_from_knots(m, ks, n0, a) ==
  LET c == CopyKnots(m, ks, a)
      g == MM_ctor_shape(c.m, n0, Nx0(ks), a)
      h == MM_ctor_shape(g.m, n0, 1, a)
  IN [m |-> h.m,
      p |-> [st |-> "live", G0 |-> g.x, g0 |-> h.x, stages |-> c.ks, salloc |-> a]]

\* LqrProblemTpl(KnotVector &&knots, long nc0): the sequence is taken over
\* with its allocator va, which G0 and g0 use too: result [m, p]
Problem_from_knots_move(m, ks, va, n0) ==
  LET g == MM_ctor_shape(m, n0, Nx0(ks), va)
      h == MM_ctor_shape(g.m, n0, 1, va)
  IN [m |-> h.m,
      p |-> [st |-> "live", G0 |-> g.x, g0 |-> h.x, stages |-> ks, salloc |-> va]]

\* a faulty copy constructor: G0 is not copied
Problem_copy_ctor_no_G0(m, other, a) ==
  LET r == Problem_from_knots(m, other.stages, nc0(other), a)
      h == MM_copy_assign(r.m, r.p.g0, other.g0)
  IN [m |-> h.m, p |-> [r.p EXCEPT !.g0 = h.x]]

\* LqrProblemTpl(const LqrProblemTpl &other, alloc): result [m, p]
Problem_copy_ctor(m, other, a) ==
  LET r == Problem_from_knots(m, other.stages, nc0(other), a)
      g == MM_copy_assign(r.m, r.p.G0, other.G0)
      h == MM_copy_assign(g.m, r.p.g0, other.g0)
  IN [m |-> h.m, p |-> [r.p EXCEPT !.G0 = g.x, !.g0 = h.x]]

\* a faulty move constructor: G0 and g0 are move-assigned, not copy-assigned
Problem_move_ctor_stealing(m, other) ==
  LET r == Problem_from_knots_move(m, other.stages, other.salloc, nc0(other))
      g == MM_move_assign(r.m, r.p.G0, other.G0)
      h == MM_move_assign(g.m, r.p.g0, other.g0)
  IN [m |-> h.m, p |-> [r.p EXCEPT !.G0 = g.x, !.g0 = h.x],
      other |-> [other EXCEPT !.stages = <<>>, !.G0 = g.other, !.g0 = h.other]]

\* LqrProblemTpl(LqrProblemTpl &&other): the sequence is stolen (the source is
\* left with no stage), G0 and g0 are copy-assigned: result [m, p, other]
Problem_move_ctor(m, other) ==
  LET r == Problem_from_knots_move(m, other.stages, other.salloc, nc0(other))
      g == MM_copy_assign(r.m, r.p.G0, other.G0)
      h == MM_copy_assign(g.m, r.p.g0, other.g0)
  IN [m |-> h.m, p |-> [r.p EXCEPT !.G0 = g.x, !.g0 = h.x],
      other |-> [other EXCEPT !.stages = <<>>]]

RECURSIVE FreeKnots(_, _)
FreeKnots(m, ks) ==
  IF ks = <<>> THEN m
  ELSE FreeKnots(IF Head(ks).buf = NoBuf THEN m ELSE Free(m, Head(ks).buf), Tail(ks))

\* a faulty allocator rule: the sequence adopts the source's allocator
VectorMoveAssignAllocator_propagating(self, other) == other

\* allocator of a std::pmr::vector after move assignment: never propagated
VectorMoveAssignAllocator(self, other) == self

\* operator=(LqrProblemTpl &&other): G0, g0 and stages are move-assigned.
\* The sequence keeps its allocator; it takes over the source's storage when
\* the allocators are equal and otherwise move-constructs each knot; the
\* source sequence is left empty: result [m, p, other]
Problem_move_assign(m, self, other) ==
  LET g == MM_move_assign(m, self.G0, other.G0)
      h == MM_move_assign(g.m, self.g0, other.g0)
      m3 == FreeKnots(h.m, self.stages)
  IN [m |-> m3,
      p |-> [self EXCEPT !.G0 = g.x, !.g0 = h.x, !.stages = other.stages,
                         !.salloc = VectorMoveAssignAllocator(self.salloc, other.salloc)],
      other |-> [other EXCEPT !.G0 = g.other, !.g0 = h.other, !.stages = <<>>]]

\* the loop of addParameterization: stages i, i + 1, ... while i <= n (uint);
\* acc collects the stage indices used
RECURSIVE AddParamLoop(_, _, _, _, _, _, _)
AddParamLoop(m, ks, i, n, nth, keep, acc) ==
  IF UintLess(n, ToUint(i)) THEN [m |-> m, ks |-> ks, acc |-> acc]
  ELSE LET r == Knot_addParameterization(m, ks[i + 1], nth, keep)
       IN AddParamLoop(r.m, [ks EXCEPT ![i + 1] = r.k], i + 1, n, nth, keep,
                       acc \cup {i})

\* addParameterization(nth): result [m, p, acc]
Problem_addParameterization(m, pr, nth, keep) ==
  IF pr.stages = <<>> THEN [m |-> m, p |-> pr, acc |-> {}]
  ELSE LET r == AddParamLoop(m, pr.stages, 0, ToUint(horizon(pr)), nth, keep, {})
       IN [m |-> r.m, p |-> [pr EXCEPT !.stages = r.ks], acc |-> r.acc]

\* isParameterized(): result [res, acc]
isParameterized(pr) ==
  IF pr.stages = <<>> THEN [res |-> "false", acc |-> {}]
  ELSE [res |-> IF pr.stages[1].nth > 0 THEN "true" ELSE "false", acc |-> {0}]

isInitialized(pr) == pr.stages # <<>>

\* ntheta(): stages[0].nth, whatever the length of the sequence; vals are the
\* values the read may give: result [vals, acc]
ntheta(pr) ==
  [vals |-> IF pr.stages = <<>> THEN PNthVals ELSE {pr.stages[1].nth}, acc |-> {0}]

\* the loop of isApprox from stage i (0-based) up to, not including, n;
\* "ub" when it indexes a stage that does not exist
RECURSIVE isApproxLoop(_, _, _, _, _)
isApproxLoop(hp, pr, other, i, n) ==
  IF ~UintLess(ToUint(i), n) THEN "true"
  ELSE IF i >= Len(pr.stages) \/ i >= Len(other.stages) THEN "ub"
  ELSE IF ~Knot_isApprox(hp, pr.stages[i + 1], other.stages[i + 1]) THEN "false"
  ELSE isApproxLoop(hp, pr, other, i + 1, n)

\* isApprox(other): "true", "false", "abort" (hard failure of a matrix
\* comparison) or "ub"
Problem_isApprox(hp, pr, other) ==
  IF horizon(pr) # horizon(other) THEN "false"
  ELSE LET a == MM_isApprox(hp, pr.G0, other.G0)
       IN IF a # "true" THEN a
          ELSE LET b == MM_isApprox(hp, pr.g0, other.g0)
               IN IF b # "true" THEN b
                  ELSE isApproxLoop(hp, pr, other, 0, ToUint(horizon(pr)))

\* what a call with undefined behaviour may return
Outcomes(r) == IF r = "ub" THEN {"true", "false", "abort"} ELSE {r}

(* --------------------------- textual dump ------------------------------ *)
Section(label, val) == <<[label |-> label, val |-> val]>>

\* eigenPrintWithPreamble(mat, preamble): the preamble, then the entries
eigenPrintWithPreamble(hp, mp, label) == Section(label, ReadMap(hp, mp))

\* operator<<(std::ostream &, const LqrKnotTpl &); debug = NDEBUG not defined
KnotDump(hp, k, debug) ==
  LET self == to_const_view(k)
  IN Section("nx", self.nx) \o Section("nu", self.nu) \o Section("nc", self.nc)
     \o (IF self.nth > 0 THEN Section("nth", self.nth) ELSE <<>>)
     \o (IF debug
         THEN eigenPrintWithPreamble(hp, self.Q, "Q")
              \o eigenPrintWithPreamble(hp, self.S, "S")
              \o eigenPrintWithPreamble(hp, self.R, "R")
              \o eigenPrintWithPreamble(hp, self.q, "q")
              \o eigenPrintWithPreamble(hp, self.r, "r")
              \o eigenPrintWithPreamble(hp, self.A, "A")
              \o eigenPrintWithPreamble(hp, self.B, "B")
              \o eigenPrintWithPreamble(hp, self.E, "E")
              \o eigenPrintWithPreamble(hp, self.f, "f")
              \o eigenPrintWithPreamble(hp, self.C, "C")
              \o eigenPrintWithPreamble(hp, self.D, "D")
              \o eigenPrintWithPreamble(hp, self.d, "d")
              \o (IF self.nth > 0
                  THEN eigenPrintWithPreamble(hp, self.Gth, "Gth")
                       \o eigenPrintWithPreamble(hp, self.Gx, "Gx")
                       \o eigenPrintWithPreamble(hp, self.Gu, "Gu")
                       \o eigenPrintWithPreamble(hp, self.gamma, "gamma")
                  ELSE <<>>)
         ELSE <<>>)

(* ------------------------ the knot scenario ---------------------------- *)
NoKnot == [st |-> "none"]
NoProb == [st |-> "none"]

Op(op, x, y) ==
  [op |-> op, x |-> x, y |-> y, res |-> "", n |-> 0, acc |-> {}, text |-> <<>>,
   dbg |-> FALSE]

\* views of knot id are marked once the knot's storage has been reallocated
MarkStale(vs, id) == {IF v.owner = id THEN [v EXCEPT !.stale = TRUE] ELSE v : v \in vs}

PutKnot(r, id, done) ==
  /\ heap' = r.m.hp
  /\ nextBuf' = r.m.nb
  /\ knots' = [knots EXCEPT ![id] = r.k]
  /\ last' = done
  /\ UNCHANGED probs

KCtor5(id, allocs) ==
  /\ knots[id].st = "none" /\ nextBuf <= MaxKnotBuf
  /\ \E nx \in NxVals, nu \in NuVals, nc \in NcVals, nx2 \in Nx2Vals,
        nth \in CtorNthVals, a \in allocs :
       PutKnot(Knot_ctor(Mem(heap, nextBuf), nx, nu, nc, nx2, nth, a), id, Op("Knot_ctor", id, ""))
  /\ UNCHANGED views

KCtor4(id) ==
  /\ knots[id].st = "none" /\ nextBuf <= MaxKnotBuf
  /\ \E nx \in NxVals, nu \in NuVals, nc \in NcVals, nx2 \in Nx2Vals, a \in Allocs :
       PutKnot(Knot_ctor4(Mem(heap, nextBuf), nx, nu, nc, nx2, a), id, Op("Knot_ctor4", id, ""))
  /\ UNCHANGED views

KCtor3(id) ==
  /\ knots[id].st = "none" /\ nextBuf <= MaxKnotBuf
  /\ \E nx \in NxVals, nu \in NuVals, nc \in NcVals, a \in Allocs :
       PutKnot(Knot_ctor3(Mem(heap, nextBuf), nx, nu, nc, a), id, Op("Knot_ctor3", id, ""))
  /\ UNCHANGED views

KCopyCtor(id, o) ==
  /\ id # o /\ knots[id].st = "none" /\ knots[o].st = "live" /\ nextBuf <= MaxKnotBuf
  /\ \E a \in Allocs :
       PutKnot(Knot_copy_ctor(Mem(heap, nextBuf), knots[o], a), id, Op("Knot_copy_ctor", id, o))
  /\ UNCHANGED views

PutKnots(r, id, o, op) ==
  /\ heap' = r.m.hp
  /\ nextBuf' = r.m.nb
  /\ knots' = [knots EXCEPT ![id] = r.k, ![o] = r.other]
  /\ last' = Op(op, id, o)
  /\ UNCHANGED probs

KMoveCtor(id, o) ==
  /\ id # o /\ knots[id].st = "none" /\ knots[o].st = "live"
  /\ PutKnots(Knot_move_ctor(Mem(heap, nextBuf), knots[o]), id, o, "Knot_move_ctor")
  /\ views' = MarkStale(views, o)

KAssign(id, o) ==
  /\ id # o /\ knots[id].st = "live" /\ knots[o].st = "live" /\ nextBuf <= MaxKnotBuf
  /\ LET r == Knot_assign(Mem(heap, nextBuf), knots[id], knots[o])
     IN /\ PutKnot(r, id, [Op("assign", id, o) EXCEPT
                              !.res = IF r.realloc THEN "realloc" ELSE "inplace"])
        /\ views' = IF r.realloc THEN MarkStale(views, id) ELSE views

KCopyAssign(id, o) ==
  /\ id # o /\ knots[id].st \in {"live", "moved"} /\ knots[o].st = "live"
  /\ nextBuf <= MaxKnotBuf
  /\ LET r == Knot_copy_assign(Mem(heap, nextBuf), knots[id], knots[o])
     IN /\ PutKnot(r, id, [Op("Knot_copy_assign", id, o) EXCEPT
                              !.res = IF r.realloc THEN "realloc" ELSE "inplace"])
        /\ views' = IF r.realloc THEN MarkStale(views, id) ELSE views

KMoveAssign(id, o) ==
  /\ id # o /\ knots[id].st \in {"live", "moved"} /\ knots[o].st = "live"
  /\ PutKnots(Knot_move_assign(Mem(heap, nextBuf), knots[id], knots[o]), id, o,
              "Knot_move_assign")
  /\ views' = MarkStale(MarkStale(views, id), o)

KAddParameterization(id) ==
  /\ knots[id].st = "live" /\ nextBuf <= MaxKnotBuf
  /\ \E nth \in NthVals, keep \in BOOLEAN :
       /\ (nth = knots[id].nth => keep)
       /\ PutKnot(Knot_addParameterization(Mem(heap, nextBuf), knots[id], nth, keep),
                  id, [Op("addParameterization", id, "") EXCEPT !.n = nth])
  /\ views' = MarkStale(views, id)

\* the solver asks for a view
KToView(id) ==
  /\ knots[id].st = "live" /\ Cardinality(views) < MaxViews
  /\ views' = views \cup {[owner |-> id, stale |-> FALSE, v |-> to_view(knots[id])]}
  /\ last' = Op("to_view", id, "")
  /\ UNCHANGED <<heap, nextBuf, knots, probs>>

\* a write to a block of the owner
KWrite(id) ==
  /\ knots[id].st = "live"
  /\ \E b \in WrBlocks, val \in WriteVals :
       /\ <<1, 1>> \in DOMAIN heap[knots[id].buf][b]
       /\ heap' = WriteMap(heap, to_map(knots[id], b), val)
       /\ last' = [Op("write", id, "") EXCEPT !.res = b]
  /\ UNCHANGED <<nextBuf, knots, views, probs>>

\* a write through a view that has not been invalidated
KWriteView ==
  /\ \E w \in views, b \in WrBlocks, val \in WriteVals :
       /\ ~w.stale
       /\ w.v[b].rows > 0 /\ w.v[b].cols > 0
       /\ heap' = WriteMap(heap, w.v[b], val)
       /\ last' = [Op("write_view", w.owner, "") EXCEPT !.res = b]
  /\ UNCHANGED <<nextBuf, knots, views, probs>>

KPrint(id) ==
  /\ knots[id].st = "live"
  /\ \E debug \in BOOLEAN :
       last' = [Op("print", id, "") EXCEPT !.dbg = debug,
                                          !.text = KnotDump(heap, knots[id], debug)]
  /\ UNCHANGED <<heap, nextBuf, knots, views, probs>>

\* no object has been constructed yet
Init ==
  /\ heap = <<>>
  /\ nextBuf = 1
  /\ knots = [id \in KnotIds |-> NoKnot]
  /\ views = {}
  /\ probs = [s \in ProbIds |-> NoProb]
  /\ last = Op("init", "", "")

\* The scenario: a subject knot the solver works on, and a second knot that
\* serves as the source (or the target) of copies, assignments and moves.
NextKnot ==
  \/ KCtor5(Subject, Allocs)
  \/ KCtor5(Other, Allocs \ {DefaultAlloc})
  \/ KCtor4(Subject)
  \/ KCtor3(Subject)
  \/ KCopyCtor(Subject, Other)
  \/ \E id, o \in KnotIds : KMoveCtor(id, o)
  \/ KAssign(Subject, Other)
  \/ KCopyAssign(Subject, Other)
  \/ KMoveAssign(Subject, Other)
  \/ KAddParameterization(Subject)
  \/ KToView(Subject)
  \/ KWrite(Subject)
  \/ KWriteView
  \/ KPrint(Subject)

SpecKnot == Init /\ [][NextKnot]_vars

(* ----------------------- the problem scenario -------------------------- *)
LiveProb(s) == probs[s].st = "live"

\* a sequence of n knots of the same dimensions, built under allocator a
RECURSIVE MakeKnots(_, _, _, _, _)
MakeKnots(m, n, nx, nth, a) ==
  IF n = 0 THEN [m |-> m, ks |-> <<>>]
  ELSE LET r == Knot_ctor(m, nx, 1, 1, nx, nth, a)
           rest == MakeKnots(r.m, n - 1, nx, nth, a)
       IN [m |-> rest.m, ks |-> <<r.k>> \o rest.ks]

PutProb(m, s, pr, done) ==
  /\ heap' = m.hp
  /\ UNCHANGED nextBuf
  /\ probs' = [probs EXCEPT ![s] = pr]
  /\ last' = done
  /\ UNCHANGED <<knots, views>>

PutProbs(r, s, o, done) ==
  /\ heap' = r.m.hp
  /\ UNCHANGED nextBuf
  /\ probs' = [probs EXCEPT ![s] = r.p, ![o] = r.other]
  /\ last' = done
  /\ UNCHANGED <<knots, views>>

Query(done) ==
  /\ last' = done
  /\ UNCHANGED <<heap, nextBuf, knots, views, probs>>

PDefaultCtor(s) ==
  /\ probs[s].st = "none"
  /\ \E a \in Allocs :
       PutProb(Pool(heap), s, Problem_ctor(a), Op("Problem_ctor", s, ""))

\* the caller builds a knot sequence, constructs the problem from it and
\* drops its own sequence
PFromKnots(s) ==
  /\ probs[s].st = "none"
  /\ \E n \in 0..MaxStages, nx \in PNxVals, nth \in CtorNthVals, n0 \in Nc0Vals,
        a \in Allocs :
       LET v == MakeKnots(Pool(heap), n, nx, nth, DefaultAlloc)
           r == Problem_from_knots(v.m, v.ks, n0, a)
       IN PutProb(FreeKnots(r.m, v.ks), s, r.p, Op("Problem_from_knots", s, ""))

\* the caller builds a knot sequence and hands it over
PFromKnotsMove(s) ==
  /\ probs[s].st = "none"
  /\ \E n \in 0..MaxStages, nx \in PNxVals, nth \in {0}, n0 \in Nc0Vals,
        va \in Allocs \ {DefaultAlloc} :
       LET v == MakeKnots(Pool(heap), n, nx, nth, va)
           r == Problem_from_knots_move(v.m, v.ks, va, n0)
       IN PutProb(r.m, s, r.p, Op("Problem_from_knots_move", s, ""))

PCopyCtor(s, o) ==
  /\ s # o /\ probs[s].st = "none" /\ LiveProb(o)
  /\ \E a \in Allocs :
       LET r == Problem_copy_ctor(Pool(heap), probs[o], a)
       IN PutProb(r.m, s, r.p, [Op("Problem_copy_ctor", s, o) EXCEPT !.res = a])

PMoveCtor(s, o) ==
  /\ s # o /\ probs[s].st = "none" /\ LiveProb(o)
  /\ PutProbs(Problem_move_ctor(Pool(heap), probs[o]), s, o,
              Op("Problem_move_ctor", s, o))

PMoveAssign(s, o) ==
  /\ s # o /\ LiveProb(s) /\ LiveProb(o)
  /\ PutProbs(Problem_move_assign(Pool(heap), probs[s], probs[o]), s, o,
              Op("Problem_move_assign", s, o))

PAddParameterization(s) ==
  /\ LiveProb(s)
  /\ \E nth \in PNthVals, keep \in BOOLEAN :
       LET r == Problem_addParameterization(Pool(heap), probs[s], nth, keep)
       IN /\ (probs[s].stages = <<>> \/ nth = probs[s].stages[1].nth) => keep
          /\ PutProb(r.m, s, r.p,
                     [Op("Problem_addParameterization", s, "") EXCEPT
                        !.n = nth, !.acc = r.acc])

PIsParameterized(s) ==
  /\ LiveProb(s)
  /\ LET r == isParameterized(probs[s])
     IN Query([Op("isParameterized", s, "") EXCEPT !.res = r.res, !.acc = r.acc])

PNtheta(s) ==
  /\ LiveProb(s)
  /\ LET r == ntheta(probs[s])
     IN \E n \in r.vals :
          Query([Op("ntheta", s, "") EXCEPT !.n = n, !.acc = r.acc])

PIsApprox(s, o) ==
  /\ LiveProb(s) /\ LiveProb(o)
  /\ \E res \in Outcomes(Problem_isApprox(heap, probs[s], probs[o])) :
       Query([Op("isApprox", s, o) EXCEPT !.res = res])

\* a write to the first entry of G0
PWriteG0(s) ==
  /\ LiveProb(s) /\ probs[s].G0.buf # NoBuf
  /\ \E val \in WriteVals :
       heap' = [heap EXCEPT ![probs[s].G0.buf][<<1, 1>>] = val]
  /\ last' = [Op("write", s, "") EXCEPT !.res = "G0"]
  /\ UNCHANGED <<nextBuf, knots, views, probs>>

\* a write to a block of the terminal stage
PWriteStage(s) ==
  /\ LiveProb(s)
  /\ \E i \in DOMAIN probs[s].stages, b \in PWrBlocks, val \in WriteVals :
       /\ i = Len(probs[s].stages)
       /\ heap' = WriteMap(heap, to_map(probs[s].stages[i], b), val)
       /\ last' = [Op("write", s, "") EXCEPT !.res = b, !.n = i - 1]
  /\ UNCHANGED <<nextBuf, knots, views, probs>>

\* The scenario: problem P is the one worked on (built by default, from a
\* caller's knot sequence, or as a copy or a move of O; grown, queried,
\* compared); problem O is built from an unparameterized knot sequence handed
\* over with a non-default allocator, and serves as the other side of copies,
\* moves and comparisons.
Next ==
  \/ PDefaultCtor(P)
  \/ PFromKnots(P)
  \/ PFromKnotsMove(O)
  \/ PCopyCtor(P, O)
  \/ PMoveCtor(P, O)
  \/ PMoveAssign(P, O)
  \/ PAddParameterization(P)
  \/ PIsParameterized(P)
  \/ PNtheta(P)
  \/ \E o \in ProbIds : PIsApprox(P, o)
  \/ \E s \in ProbIds : PWriteG0(s)
  \/ \E s \in ProbIds : PWriteStage(s)

Spec == Init /\ [][Next]_vars

(* ----------------------- claims on the knot ---------------------------- *)
LiveKnot(id) == knots[id].st = "live"
Labels(text) == {text[i].label : i \in DOMAIN text}

\* C5: addParameterization(nth) leaves nx, nu, nc, nx2 and the values of
\* Q, S, R, q, r, A, B, E, f, C, D, d unchanged, sets nth to the argument with
\* Gth, Gx, Gu, Gv, gamma shaped for it and their new entries zero, and changes
\* no value when called with the knot's current nth.
C5_AddParameterizationFrame ==
  [][last'.op = "addParameterization" =>
       LET k == knots[last'.x]
           k2 == knots'[last'.x]
           old == heap[k.buf]
           new == heap'[k2.buf]
           nth == last'.n
       IN /\ k2.nx = k.nx /\ k2.nu = k.nu /\ k2.nc = k.nc /\ k2.nx2 = k.nx2
          /\ \A b \in Blocks \ ParamBlocks : new[b] = old[b]
          /\ k2.nth = nth
          /\ DOMAIN new["Gth"] = Idx(nth, nth)
          /\ DOMAIN new["Gx"] = Idx(nth, k.nx)
          /\ DOMAIN new["Gu"] = Idx(nth, k.nu)
          /\ DOMAIN new["Gv"] = Idx(k.nc, nth)
          /\ DOMAIN new["gamma"] = Idx(nth, 1)
          /\ \A b \in ParamBlocks :
               \A ij \in (DOMAIN new[b]) \ (DOMAIN old[b]) : new[b][ij] = 0
          /\ (nth = k.nth => new = old)]_vars

\* C5 witness: a knot with written cost and parameter data has been grown to
\* the largest parameter dimension and still holds the written cost entry.
C5_Witness ==
  /\ last.op = "addParameterization" /\ last.n = MaxNth
  /\ LiveKnot(Subject)
  /\ heap[knots[Subject].buf]["Q"][<<1, 1>>] = 1
  /\ heap[knots[Subject].buf]["Gth"][<<1, 1>>] = 1

\* C6: a view that predates no reallocation of its owner carries the owner's
\* dimensions and aliases, field by field, the owner's block of the same name
\* in the owner's live buffer (so a write through it is a write to the knot);
\* once a reallocating mutation of the owner (addParameterization, a resizing
\* assign or copy assignment, move assignment, being moved from) has acted,
\* every view obtained before it no longer refers to the owner's buffer
\* (checked on the views that step leaves behind).
C6_ViewsAliasUntilReallocation ==
  [][/\ \A w \in views' :
          LET k == knots'[w.owner]
          IN IF ~w.stale
             THEN /\ k.st = "live"
                  /\ w.v.nx = k.nx /\ w.v.nu = k.nu /\ w.v.nc = k.nc
                  /\ w.v.nx2 = k.nx2 /\ w.v.nth = k.nth
                  /\ \A b \in Blocks :
                       /\ w.v[b].buf = k.buf /\ w.v[b].buf \in DOMAIN heap'
                       /\ w.v[b].blk = b
                       /\ w.v[b].rows = k.blk[b].rows /\ w.v[b].cols = k.blk[b].cols
             ELSE ([w EXCEPT !.stale = FALSE] \in views \ views') =>
                    \A b \in Blocks : w.v[b].buf # k.buf
     /\ last'.op = "write_view" =>
          heap'[knots'[last'.x].buf][last'.res][<<1, 1>>] \in WriteVals
     /\ last'.op \in {"addParameterization", "Knot_move_assign"} =>
          \A w \in views' : w.owner = last'.x => w.stale
     /\ last'.op \in {"Knot_move_ctor", "Knot_move_assign"} =>
          \A w \in views' : w.owner = last'.y => w.stale]_vars

\* C6 witness: a view was taken, and the owner then went through
\* addParameterization, which left the view behind.
C6_Witness ==
  /\ last.op = "addParameterization"
  /\ \E w \in views : w.stale /\ w.owner = last.x /\ w.v.nth # knots[last.x].nth

\* C7: every block of a live knot has the shape its dimension fields dictate
\* and is held under the knot's allocator.
C7_ShapesMatchDimensions ==
  \A id \in KnotIds :
    LiveKnot(id) =>
      LET k == knots[id]
          want == [Q |-> <<k.nx, k.nx>>, S |-> <<k.nx, k.nu>>, R |-> <<k.nu, k.nu>>,
                   q |-> <<k.nx, 1>>, r |-> <<k.nu, 1>>,
                   A |-> <<k.nx2, k.nx>>, B |-> <<k.nx2, k.nu>>,
                   E |-> <<k.nx2, k.nx2>>, f |-> <<k.nx2, 1>>,
                   C |-> <<k.nc, k.nx>>, D |-> <<k.nc, k.nu>>, d |-> <<k.nc, 1>>,
                   Gth |-> <<k.nth, k.nth>>, Gx |-> <<k.nth, k.nx>>,
                   Gu |-> <<k.nth, k.nu>>, Gv |-> <<k.nc, k.nth>>,
                   gamma |-> <<k.nth, 1>>]
      IN \A b \in Blocks :
           /\ k.blk[b].rows = want[b][1] /\ k.blk[b].cols = want[b][2]
           /\ DOMAIN heap[k.buf][b] = Idx(want[b][1], want[b][2])
           /\ k.blk[b].alloc = k.alloc

\* C7 witness: assign(other) has just reshaped the subject to the larger shape
\* of a source knot held under another allocator.
C7_Witness ==
  /\ last.op = "assign" /\ last.res = "realloc"
  /\ LiveKnot(Subject) /\ LiveKnot(Other)
  /\ knots[Subject].nx = 2 /\ knots[Subject].alloc # knots[Other].alloc

\* C9: the dump reports nx, nu and nc; in a debug build it has one section
\* for every block of the knot, omitted only when the block's governing
\* dimension is zero (the parameter blocks exactly when nth = 0); in an
\* optimised build it has no block section.
C9_DumpHasEveryBlock ==
  last.op = "print" =>
    LET k == knots[last.x]
        text == last.text
    IN /\ {"nx", "nu", "nc"} \subseteq Labels(text)
       /\ last.dbg =>
            \A b \in Blocks :
              /\ (k.blk[b].rows > 0 /\ k.blk[b].cols > 0) =>
                   Cardinality({i \in DOMAIN text : text[i].label = b}) = 1
              /\ (b \in ParamBlocks /\ k.nth = 0) => b \notin Labels(text)
       /\ ~last.dbg => Labels(text) \cap Blocks = {}

(* ---------------------- claims on the problem -------------------------- *)
Buffers(pr) ==
  ({pr.G0.buf, pr.g0.buf} \cup {pr.stages[i].buf : i \in DOMAIN pr.stages}) \ {NoBuf}

SameMatrix(hp1, a, hp2, b) ==
  /\ a.rows = b.rows /\ a.cols = b.cols
  /\ MM_data(hp1, a) = MM_data(hp2, b)

\* C1: on problems that have stages and whose G0 and g0 have equal shapes,
\* isApprox returns true iff the horizons are equal, G0 and g0 are close and
\* every stage pair 0..horizon, the terminal one included, is close.
C1_IsApproxComparesEveryStage ==
  last.op = "isApprox" =>
    LET p == probs[last.x]
        o == probs[last.y]
    IN (/\ p.stages # <<>> /\ o.stages # <<>>
        /\ p.G0.rows = o.G0.rows /\ p.G0.cols = o.G0.cols
        /\ p.g0.rows = o.g0.rows /\ p.g0.cols = o.g0.cols)
       => (last.res = "true" <=>
             /\ horizon(p) = horizon(o)
             /\ MM_data(heap, p.G0) = MM_data(heap, o.G0)
             /\ MM_data(heap, p.g0) = MM_data(heap, o.g0)
             /\ \A i \in DOMAIN p.stages :
                  Knot_isApprox(heap, p.stages[i], o.stages[i]))

\* C2: G0, g0 and the stage sequence of every constructed problem use one
\* allocator.
C2_AllocatorsAgree ==
  \A s \in ProbIds :
    LiveProb(s) =>
      /\ probs[s].G0.alloc = probs[s].g0.alloc
      /\ probs[s].G0.alloc = probs[s].salloc

\* C2 witness: a problem with stages has just been move-assigned from a
\* problem built with another allocator.
C2_Witness ==
  /\ last.op = "Problem_move_assign"
  /\ probs[P].stages # <<>>
  /\ probs[P].G0.alloc # probs[O].G0.alloc

C4_MoveConstruction ==
  [][last'.op = "Problem_move_ctor" =>
       LET o == probs[last'.y]
           o2 == probs'[last'.y]
           p2 == probs'[last'.x]
       IN /\ p2.stages = o.stages
          /\ \A i \in DOMAIN o.stages : heap'[o.stages[i].buf] = heap[o.stages[i].buf]
          /\ horizon(p2) = horizon(o)
          /\ SameMatrix(heap', p2.G0, heap, o.G0)
          /\ SameMatrix(heap', p2.g0, heap, o.g0)
          /\ get_allocator(p2) = get_allocator(o)
          /\ SameMatrix(heap', o2.G0, heap, o.G0)
          /\ SameMatrix(heap', o2.g0, heap, o.g0)]_vars

\* C4 witness: a problem under the pool allocator, with the longest stage
\* sequence and written G0 data, has been moved from.
C4_Witness ==
  /\ last.op = "Problem_move_ctor"
  /\ Len(probs[P].stages) = MaxStages
  /\ probs[O].stages = <<>>
  /\ get_allocator(probs[P]) = "pool"
  /\ MM_data(heap, probs[P].G0)[<<1, 1>>] = 1
  /\ MM_data(heap, probs[O].G0)[<<1, 1>>] = 1

\* C8: isApprox is reflexive and symmetric on all constructed problems, a
\* problem without stages included.
C8_IsApproxReflexiveSymmetric ==
  last.op = "isApprox" =>
    LET p == probs[last.x]
        o == probs[last.y]
    IN /\ last.x = last.y => last.res = "true"
       /\ Problem_isApprox(heap, o, p) # "ub"
       /\ last.res = Problem_isApprox(heap, o, p)

\* C10: isParameterized(), ntheta() and addParameterization(nth) only use
\* stage indices 0..|stages|-1; on a problem without stages isParameterized()
\* is false and addParameterization changes nothing; on a problem with stages
\* isParameterized() = (ntheta() > 0) = (stages[0].nth > 0).
C10_QueriesStayInRange ==
  [][last'.op \in {"isParameterized", "ntheta", "Problem_addParameterization"} =>
       LET pr == probs[last'.x]
       IN /\ last'.acc \subseteq 0..(Len(pr.stages) - 1)
          /\ pr.stages = <<>> =>
               /\ last'.op = "isParameterized" => last'.res = "false"
               /\ last'.op = "Problem_addParameterization" =>
                    (probs' = probs /\ heap' = heap)
          /\ pr.stages # <<>> =>
               /\ last'.op = "isParameterized" =>
                    (last'.res = "true" <=> pr.stages[1].nth > 0)
               /\ last'.op = "ntheta" => last'.n = pr.stages[1].nth]_vars

====
